---------------------------- MODULE Spec2Model ----------------------------
(***************************************************************************)
(* A model of generate_portfolio.py: the script that scans docs/project,   *)
(* reads each project's README.md and writes docs/PORTFOLIO.md.            *)
(*                                                                         *)
(* Text is a sequence of strings.  A one-character string is that          *)
(* character; the fixed pieces of the script's f-strings are kept as one   *)
(* string each.  The text a sequence stands for is the concatenation of    *)
(* its elements.                                                           *)
(***************************************************************************)
EXTENDS Integers, Sequences, FiniteSets, TLC

(***************************************************************************)
(* Characters.                                                             *)
(***************************************************************************)
Uppers == <<"A","B","C","D","E","F","G","H","I","J","K","L","M",
            "N","O","P","Q","R","S","T","U","V","W","X","Y","Z">>
Lowers == <<"a","b","c","d","e","f","g","h","i","j","k","l","m",
            "n","o","p","q","r","s","t","u","v","w","x","y","z">>
Digits == <<"0","1","2","3","4","5","6","7","8","9">>

Range(s) == {s[i] : i \in DOMAIN s}
IndexOf(c, s) == CHOOSE i \in DOMAIN s : s[i] = c

\* str.isupper / str.islower / str.isdigit of one character
IsUpper(c) == c \in Range(Uppers)
IsLower(c) == c \in Range(Lowers)
IsCased(c) == IsUpper(c) \/ IsLower(c)
IsDigit(c) == c \in Range(Digits)

\* str.upper / str.lower of one character
Upper(c) == IF IsLower(c) THEN Uppers[IndexOf(c, Lowers)] ELSE c
Lower(c) == IF IsUpper(c) THEN Lowers[IndexOf(c, Uppers)] ELSE c

\* ord(c): the code point that decides the order of two strings
Code(c) ==
    CASE IsUpper(c) -> 64 + IndexOf(c, Uppers)
      [] IsLower(c) -> 96 + IndexOf(c, Lowers)
      [] IsDigit(c) -> 47 + IndexOf(c, Digits)
      [] c = "\n" -> 10
      [] c = "\r" -> 13
      [] c = " " -> 32
      [] c = "#" -> 35
      [] c = "-" -> 45
      [] c = "_" -> 95

\* Python's < on two str values: the first differing code point decides, and
\* a proper prefix is the smaller
RECURSIVE StrLess(_, _)
StrLess(a, b) ==
    IF b = <<>> THEN FALSE
    ELSE IF a = <<>> THEN TRUE
    ELSE IF Head(a) = Head(b) THEN StrLess(Tail(a), Tail(b))
    ELSE Code(Head(a)) < Code(Head(b))

\* str(n) of a non-negative integer
RECURSIVE Str(_)
Str(n) == IF n < 10 THEN <<Digits[n + 1]>>
          ELSE Str(n \div 10) \o <<Digits[(n % 10) + 1]>>

\* a number below 10^w with leading zeros, as strftime's %Y, %m and %d give
RECURSIVE ZeroPad(_, _)
ZeroPad(n, w) == IF w = 0 THEN <<>>
                 ELSE ZeroPad(n \div 10, w - 1) \o <<Digits[(n % 10) + 1]>>

\* format(n, ","): decimal digits with a comma between groups of three
RECURSIVE Commas(_)
Commas(n) == IF n < 1000 THEN Str(n)
             ELSE Commas(n \div 1000) \o <<",">> \o ZeroPad(n % 1000, 3)

\* str.replace(old, new) for a one-character old and new
Replace(s, old, new) == [i \in DOMAIN s |-> IF s[i] = old THEN new ELSE s[i]]


(***************************************************************************)
(* Bounds of the model.                                                    *)
(***************************************************************************)
\* the longest directory name the title computation is tried on
MaxNameLen == 3

\* the characters those directory names are made of
NameChars == {" ", "-", "1", "B", "a"}

\* the entries docs/project may hold: "10-x", "2" and "B-a"
Names == { <<"1","0","-","x">>, <<"2">>, <<"B","-","a">> }

\* the bytes a README.md may hold: nothing, "T\n" and "x\r\ny"
Texts == { <<>>, <<"T","\n">>, <<"x","\r","\n","y">> }

\* the days the script may run on (datetime.utcnow())
Dates == { [year |-> 2026, month |-> 10, day |-> 30],
           [year |-> 2026, month |-> 10, day |-> 31] }

(***************************************************************************)
(* The file system the script sees.                                        *)
(***************************************************************************)
\* an entry of docs/project: nothing of that name, a plain file, or a
\* directory; a directory's README.md is absent, present but unreadable
\* (read_text raises), or a file holding bytes
NoEntry   == [kind |-> "none", readme |-> "absent", bytes |-> <<>>]
FileEntry == [kind |-> "file", readme |-> "absent", bytes |-> <<>>]
DirEntries ==
    { [kind |-> "dir", readme |-> "absent", bytes |-> <<>>],
      [kind |-> "dir", readme |-> "unreadable", bytes |-> <<>>] }
    \cup { [kind |-> "dir", readme |-> "file", bytes |-> b] : b \in Texts }
Entries == {NoEntry, FileEntry} \cup DirEntries

\* docs/PORTFOLIO.md: absent, or a file holding text
NoFile      == [exists |-> FALSE, text |-> <<>>]
FileOf(t)   == [exists |-> TRUE, text |-> t]
\* a docs/PORTFOLIO.md that something other than the script left behind
StaleFile   == FileOf(<<"o","l","d">>)

(***************************************************************************)
(* The constants and the fixed text of the script.                         *)
(***************************************************************************)
PROJECT_DIR == <<"docs/project">>
OUTPUT_FILE == <<"docs/PORTFOLIO.md">>

HeaderHead == "# DevSecOps & Cloud Security Portfolio\n\n> **BAMG Studio** | Generated "
HeaderTail == "\n>\n> Comprehensive documentation for 12 enterprise-grade security,\n> DevOps, and ML engineering projects demonstrating expertise in\n> AWS cloud architecture, security automation, and MLOps.\n\n---\n\n"
HeaderEnd == "\n---\n\n"
TocHeading == "## Table of Contents\n\n"
TocOpen == ". ["
TocMid == "](#"
TocClose == ")\n"
SectionOpen == "\n\n---\n\n<!-- PROJECT: "
SectionMid == " -->\n\n"
SectionClose == "\n"
NoProjectsMessage == "No project README files found!"
GeneratedMessage == "Portfolio generated: "
TotalProjectsMessage == "Total projects: "
TotalSizeMessage == "Total size: "
CharactersMessage == " characters"

\* len() of one element of a text: the length of a fixed piece, 1 for a
\* character
PieceLen(t) ==
    CASE t = HeaderHead -> 70
      [] t = HeaderTail -> 196
      [] t = HeaderEnd -> 6
      [] t = TocHeading -> 22
      [] t = TocOpen -> 3
      [] t = TocMid -> 3
      [] t = TocClose -> 2
      [] t = SectionOpen -> 21
      [] t = SectionMid -> 6
      [] OTHER -> 1

\* len() of a text
RECURSIVE TextLen(_)
TextLen(s) == IF s = <<>> THEN 0 ELSE PieceLen(Head(s)) + TextLen(Tail(s))

(***************************************************************************)
(* get_project_dirs                                                        *)
(***************************************************************************)
\* sorted(): the names in ascending order (the names of one directory are
\* distinct, so the order is total and the result unique)
RECURSIVE Insert(_, _)
Insert(x, s) ==
    IF s = <<>> THEN <<x>>
    ELSE IF StrLess(x, Head(s)) THEN <<x>> \o s
    ELSE <<Head(s)>> \o Insert(x, Tail(s))

RECURSIVE sorted(_)
sorted(s) == IF s = <<>> THEN <<>> ELSE Insert(Head(s), sorted(Tail(s)))

\* every ordering of a set: base.iterdir() yields the entries in an order the
\* operating system chooses
Orderings(S) ==
    { s \in [1..Cardinality(S) -> S] : \A x \in S : \E i \in DOMAIN s : s[i] = x }

\* get_project_dirs without sorted(): the directories in iterdir()'s order
get_project_dirs_unsorted(listing, fs) ==
    SelectSeq(listing, LAMBDA d : fs[d].kind = "dir")

\* listing: the entries of docs/project in iterdir()'s order; fs: the entries
get_project_dirs(listing, fs) ==
    sorted(SelectSeq(listing, LAMBDA d : fs[d].kind = "dir"))

(***************************************************************************)
(* read_readme                                                             *)
(***************************************************************************)
\* open() in text mode with newline=None, as Path.read_text() opens the file:
\* "\r\n" and a lone "\r" are read as "\n"
RECURSIVE UniversalNewlines(_)
UniversalNewlines(b) ==
    IF b = <<>> THEN <<>>
    ELSE IF Head(b) = "\r"
         THEN IF Len(b) > 1 /\ b[2] = "\n"
              THEN <<"\n">> \o UniversalNewlines(Tail(Tail(b)))
              ELSE <<"\n">> \o UniversalNewlines(Tail(b))
         ELSE <<Head(b)>> \o UniversalNewlines(Tail(b))

read_text(b) == UniversalNewlines(b)

\* the result of read_readme on a directory whose README.md can be read:
\* None is [none |-> TRUE]
PyNone == [none |-> TRUE, text |-> <<>>]
PyStr(t) == [none |-> FALSE, text |-> t]

read_readme(e) ==
    IF e.readme = "file" THEN PyStr(read_text(e.bytes)) ELSE PyNone

\* "if content is not None:" in place of "if content:"
TruthyNotNone(content) == ~content.none

\* main without the test of line 40
TruthyAlways(content) == TRUE

\* the truth value of "content" in "if content:": None and "" are false
Truthy(content) == ~content.none /\ content.text # <<>>

(***************************************************************************)
(* generate_toc                                                            *)
(***************************************************************************)
\* str.title(): a cased character is upper-cased when the character before
\* it is not cased (or there is none) and lower-cased otherwise
RECURSIVE TitleFrom(_, _)
TitleFrom(s, prevCased) ==
    IF s = <<>> THEN <<>>
    ELSE LET c == Head(s)
         IN  << IF IsCased(c)
                THEN (IF prevCased THEN Lower(c) ELSE Upper(c))
                ELSE c >>
             \o TitleFrom(Tail(s), IsCased(c))

\* capitalizing each " "-separated word in place of str.title(): the first
\* character of a word upper-cased, its other characters lower-cased
RECURSIVE CapitalizeFrom(_, _)
CapitalizeFrom(s, inWord) ==
    IF s = <<>> THEN <<>>
    ELSE LET c == Head(s)
         IN  <<IF inWord THEN Lower(c) ELSE Upper(c)>>
             \o CapitalizeFrom(Tail(s), c # " ")

StrCapwords(s) == CapitalizeFrom(s, FALSE)

StrTitle(s) == TitleFrom(s, FALSE)

\* the place of the first " " in s, or 0
FirstSpace(s) ==
    IF \E i \in DOMAIN s : s[i] = " "
    THEN CHOOSE i \in DOMAIN s : s[i] = " " /\ \A j \in 1..(i - 1) : s[j] # " "
    ELSE 0

\* s.split(" ", 1)
SplitOnce(s) ==
    LET k == FirstSpace(s)
    IN  IF k = 0 THEN <<s>>
        ELSE <<SubSeq(s, 1, k - 1), SubSeq(s, k + 1, Len(s))>>

\* str.isdigit(): at least one character, and all of them digits
StrIsDigit(s) == s # <<>> /\ \A i \in DOMAIN s : IsDigit(s[i])

\* the title of one entry of the table of contents
title(name) ==
    LET t == StrTitle(Replace(name, "-", " "))
        parts == SplitOnce(t)
    IN  IF StrIsDigit(parts[1]) /\ Len(parts) > 1 THEN parts[2] ELSE t

\* the anchor of one entry
anchor(name) == Replace([i \in DOMAIN name |-> Lower(name[i])], " ", "-")

\* one line of the table of contents
TocLine(i, name) ==
    Str(i) \o <<TocOpen>> \o title(name) \o <<TocMid>> \o anchor(name)
           \o <<TocClose>>

RECURSIVE TocLines(_, _)
TocLines(projects, i) ==
    IF i > Len(projects) THEN <<>>
    ELSE TocLine(i, projects[i][1]) \o TocLines(projects, i + 1)

generate_toc(projects) == <<TocHeading>> \o TocLines(projects, 1)

(***************************************************************************)
(* main: the text it builds                                                *)
(***************************************************************************)
\* datetime.strftime('%Y-%m-%d')
strftime(d) ==
    ZeroPad(d.year, 4) \o <<"-">> \o ZeroPad(d.month, 2) \o <<"-">>
                       \o ZeroPad(d.day, 2)

\* the f-string of lines 48-61
Header(projects, d) ==
    <<HeaderHead>> \o strftime(d) \o <<HeaderTail>> \o generate_toc(projects)
                   \o <<HeaderEnd>>

\* what line 64 appends for one project
Section(name, content) ==
    <<SectionOpen>> \o name \o <<SectionMid>> \o content \o <<SectionClose>>

\* the loop of lines 63-64 over projects[i..]
RECURSIVE Sections(_, _)
Sections(projects, i) ==
    IF i > Len(projects) THEN <<>>
    ELSE Section(projects[i][1], projects[i][2]) \o Sections(projects, i + 1)

Portfolio(projects, d) == Header(projects, d) \o Sections(projects, 1)

\* open(OUTPUT_FILE, "a") in place of "w": the text is added to the file
WriteFileAppend(old, text) == FileOf(old.text \o text)

\* f.write(portfolio) on a file opened with open(OUTPUT_FILE, "w"): the file
\* is truncated and holds the text written ("\n" is written as os.linesep,
\* which is "\n" itself on a POSIX system)
WriteFile(old, text) == FileOf(text)

\* the three lines main prints at its end
Summary(projects, portfolio) ==
    << <<GeneratedMessage>> \o OUTPUT_FILE,
       <<TotalProjectsMessage>> \o Str(Len(projects)),
       <<TotalSizeMessage>> \o Commas(TextLen(portfolio)) \o <<CharactersMessage>> >>


(***************************************************************************)
(* The state.                                                              *)
(***************************************************************************)
VARIABLES
    rootExists,  \* docs/project is a directory
    docsExists,  \* docs is a directory
    entries,     \* what docs/project holds under each name
    outFile,     \* docs/PORTFOLIO.md
    pc,          \* where the script is: "idle" between two runs
    dirs,        \* main: the result of get_project_dirs()
    idx,         \* main: the place in dirs of the loop of lines 38-41
    projects,    \* main: the (name, content) pairs
    portfolio,   \* main: the text built
    stdout,      \* the lines the run has printed
    outBefore,   \* docs/PORTFOLIO.md as it was when the run started
    docsBefore,  \* whether docs was a directory when the run started
    fresh,       \* the last run wrote docs/PORTFOLIO.md and nothing under
                 \* docs has been changed since
    rerun,       \* the value of fresh when the run started
    tName,       \* the directory name the title computation is tried on
    tTitle,      \* its title, once computed
    tAnchor      \* its anchor, once computed

fsVars == <<rootExists, docsExists, entries, outFile>>
runVars == <<pc, dirs, idx, projects, portfolio, stdout>>
histVars == <<outBefore, docsBefore, fresh, rerun>>
titleVars == <<tName, tTitle, tAnchor>>
vars == <<fsVars, runVars, histVars, titleVars>>

NoName == <<>>
NotComputed == <<"?">>

TypeOK ==
    /\ rootExists \in BOOLEAN
    /\ docsExists \in BOOLEAN
    /\ entries \in [Names -> Entries]
    /\ outFile.exists \in BOOLEAN
    /\ pc \in {"idle", "scan", "read", "check", "build", "write", "report",
               "done", "failed"}
    /\ idx \in 1..(Cardinality(Names) + 1)
    /\ fresh \in BOOLEAN
    /\ rerun \in BOOLEAN

\* the directories of docs/project
DirNames == {n \in Names : entries[n].kind = "dir"}
\* everything docs/project holds
Present == {n \in Names : entries[n].kind # "none"}

(***************************************************************************)
(* The initial states: any content of docs/project within the bounds, and  *)
(* docs/PORTFOLIO.md absent or left by something else.                     *)
(***************************************************************************)
Init ==
    /\ rootExists \in BOOLEAN
    /\ docsExists \in BOOLEAN
    /\ entries \in [Names -> Entries]
    /\ outFile \in {NoFile, StaleFile}
    /\ rootExists => docsExists
    /\ outFile.exists => docsExists
    /\ ~rootExists => entries = [n \in Names |-> NoEntry]
    /\ pc = "idle"
    /\ dirs = <<>>
    /\ idx = 1
    /\ projects = <<>>
    /\ portfolio = <<>>
    /\ stdout = <<>>
    /\ outBefore = outFile
    /\ docsBefore = docsExists
    /\ fresh = FALSE
    /\ rerun = FALSE
    /\ tName = NoName
    /\ tTitle = NotComputed
    /\ tAnchor = NotComputed

(***************************************************************************)
(* What happens to the file system between two runs.                       *)
(***************************************************************************)
\* one entry of docs/project is created, removed or replaced
ChangeEntry ==
    /\ pc = "idle"
    /\ rootExists
    /\ \E n \in Names, e \in Entries :
          /\ e # entries[n]
          /\ entries' = [entries EXCEPT ![n] = e]
    /\ fresh' = FALSE
    /\ UNCHANGED <<rootExists, docsExists, outFile, runVars, outBefore,
                   docsBefore, rerun, titleVars>>

\* docs/project is removed with all it holds
RemoveRoot ==
    /\ pc = "idle"
    /\ rootExists
    /\ rootExists' = FALSE
    /\ entries' = [n \in Names |-> NoEntry]
    /\ fresh' = FALSE
    /\ UNCHANGED <<docsExists, outFile, runVars, outBefore, docsBefore, rerun,
                   titleVars>>

\* docs/project is created, and docs with it
CreateRoot ==
    /\ pc = "idle"
    /\ ~rootExists
    /\ rootExists' = TRUE
    /\ docsExists' = TRUE
    /\ fresh' = FALSE
    /\ UNCHANGED <<entries, outFile, runVars, outBefore, docsBefore, rerun,
                   titleVars>>

(***************************************************************************)
(* main                                                                    *)
(***************************************************************************)
\* the script is started (lines 75-76)
Start ==
    /\ pc = "idle"
    /\ pc' = "scan"
    /\ dirs' = <<>>
    /\ idx' = 1
    /\ projects' = <<>>
    /\ portfolio' = <<>>
    /\ stdout' = <<>>
    /\ outBefore' = outFile
    /\ docsBefore' = docsExists
    /\ rerun' = fresh
    /\ UNCHANGED <<fsVars, fresh, titleVars>>

\* main with os.makedirs moved before the scan
ScanAfterMakedirs ==
    /\ pc = "scan"
    /\ docsExists' = TRUE
    /\ IF rootExists
       THEN \E listing \in Orderings(Present) :
               /\ dirs' = get_project_dirs(listing, entries)
               /\ pc' = "read"
       ELSE /\ pc' = "failed"
            /\ UNCHANGED dirs
    /\ UNCHANGED <<rootExists, entries, outFile, idx, projects, portfolio,
                   stdout, histVars, titleVars>>

\* line 38: get_project_dirs(); iterdir() raises when docs/project is no
\* directory, and nothing catches it
Scan ==
    /\ pc = "scan"
    /\ IF rootExists
       THEN \E listing \in Orderings(Present) :
               /\ dirs' = get_project_dirs(listing, entries)
               /\ pc' = "read"
       ELSE /\ pc' = "failed"
            /\ UNCHANGED dirs
    /\ UNCHANGED <<fsVars, idx, projects, portfolio, stdout, histVars,
                   titleVars>>

\* lines 39-41, for the directory dirs[idx]; read_text() raises when the
\* README.md that exists cannot be read, and nothing catches it
ReadOne ==
    /\ pc = "read"
    /\ idx <= Len(dirs)
    /\ LET d == dirs[idx]
           e == entries[d]
       IN  IF e.readme = "unreadable"
           THEN /\ pc' = "failed"
                /\ UNCHANGED <<idx, projects>>
           ELSE LET content == read_readme(e)
                IN  /\ projects' = IF Truthy(content)
                                   THEN Append(projects, <<d, content.text>>)
                                   ELSE projects
                    /\ idx' = idx + 1
                    /\ UNCHANGED pc
    /\ UNCHANGED <<fsVars, dirs, portfolio, stdout, histVars, titleVars>>

\* the loop of lines 38-41 ends
ReadDone ==
    /\ pc = "read"
    /\ idx > Len(dirs)
    /\ pc' = "check"
    /\ UNCHANGED <<fsVars, dirs, idx, projects, portfolio, stdout, histVars,
                   titleVars>>

\* lines 43-45 without the return
CheckProjectsNoReturn ==
    /\ pc = "check"
    /\ stdout' = IF projects = <<>>
                 THEN Append(stdout, <<NoProjectsMessage>>)
                 ELSE stdout
    /\ pc' = "build"
    /\ UNCHANGED <<fsVars, dirs, idx, projects, portfolio, histVars,
                   titleVars>>

\* lines 43-45
CheckProjects ==
    /\ pc = "check"
    /\ IF projects = <<>>
       THEN /\ stdout' = Append(stdout, <<NoProjectsMessage>>)
            /\ pc' = "done"
       ELSE /\ pc' = "build"
            /\ UNCHANGED stdout
    /\ UNCHANGED <<fsVars, dirs, idx, projects, portfolio, histVars,
                   titleVars>>

\* lines 48-64, on the day the clock gives
Build ==
    /\ pc = "build"
    /\ \E d \in Dates : portfolio' = Portfolio(projects, d)
    /\ pc' = "write"
    /\ UNCHANGED <<fsVars, dirs, idx, projects, stdout, histVars, titleVars>>

\* lines 67-69
Write ==
    /\ pc = "write"
    /\ docsExists' = TRUE
    /\ outFile' = WriteFile(outFile, portfolio)
    /\ fresh' = TRUE
    /\ pc' = "report"
    /\ UNCHANGED <<rootExists, entries, dirs, idx, projects, portfolio,
                   stdout, outBefore, docsBefore, rerun, titleVars>>

\* lines 71-73
Report ==
    /\ pc = "report"
    /\ stdout' = stdout \o Summary(projects, portfolio)
    /\ pc' = "done"
    /\ UNCHANGED <<fsVars, dirs, idx, projects, portfolio, histVars,
                   titleVars>>

\* the process ends, with status 0 from "done" and 1 from "failed"; nothing
\* of it is kept but the file system
Exit ==
    /\ pc \in {"done", "failed"}
    /\ pc' = "idle"
    /\ dirs' = <<>>
    /\ idx' = 1
    /\ projects' = <<>>
    /\ portfolio' = <<>>
    /\ stdout' = <<>>
    /\ outBefore' = outFile
    /\ docsBefore' = docsExists
    /\ rerun' = FALSE
    /\ UNCHANGED <<fsVars, fresh, titleVars>>

Next ==
    \/ ChangeEntry
    \/ RemoveRoot
    \/ CreateRoot
    \/ Start
    \/ Scan
    \/ ReadOne
    \/ ReadDone
    \/ CheckProjects
    \/ Build
    \/ Write
    \/ Report
    \/ Exit

Spec == Init /\ [][Next]_vars


(***************************************************************************)
(* The title computation on its own: a directory name is drawn, and the    *)
(* two computations of generate_toc's loop body are applied to it.         *)
(***************************************************************************)
RECURSIVE StringsUpTo(_)
StringsUpTo(n) ==
    IF n = 0 THEN {<<>>}
    ELSE LET shorter == StringsUpTo(n - 1)
         IN  shorter \cup {Append(s, c) : s \in shorter, c \in NameChars}

InitTitle ==
    /\ rootExists = TRUE
    /\ docsExists = TRUE
    /\ entries = [n \in Names |-> NoEntry]
    /\ outFile = NoFile
    /\ pc = "idle"
    /\ dirs = <<>>
    /\ idx = 1
    /\ projects = <<>>
    /\ portfolio = <<>>
    /\ stdout = <<>>
    /\ outBefore = NoFile
    /\ docsBefore = TRUE
    /\ fresh = FALSE
    /\ rerun = FALSE
    /\ tName \in StringsUpTo(MaxNameLen) \ {<<>>}
    /\ tTitle = NotComputed
    /\ tAnchor = NotComputed

\* lines 27-32 for the name drawn
ComputeTitle ==
    /\ tTitle = NotComputed
    /\ tTitle' = title(tName)
    /\ tAnchor' = anchor(tName)
    /\ UNCHANGED <<fsVars, runVars, histVars, tName>>

NextTitle == ComputeTitle

SpecTitle == InitTitle /\ [][NextTitle]_vars

(***************************************************************************)
(* Reading a written document back.                                        *)
(***************************************************************************)
\* the place of the first element t of s, or 0
PosOf(s, t) ==
    IF \E i \in DOMAIN s : s[i] = t
    THEN CHOOSE i \in DOMAIN s : s[i] = t /\ \A j \in 1..(i - 1) : s[j] # t
    ELSE 0

\* sub occurs in s as a contiguous piece
Contains(s, sub) ==
    \E i \in 1..(Len(s) - Len(sub) + 1) : SubSeq(s, i, i + Len(sub) - 1) = sub

\* the lines of the table of contents: what lies between its heading and the
\* separator that ends the header
TocPart(doc) == SubSeq(doc, PosOf(doc, TocHeading) + 1, PosOf(doc, HeaderEnd) - 1)

\* the body: what follows the header
BodyPart(doc) == SubSeq(doc, PosOf(doc, HeaderEnd) + 1, Len(doc))

\* a text cut into its lines, each without the piece that ends it
RECURSIVE LinesOf(_, _)
LinesOf(s, eol) ==
    IF s = <<>> THEN <<>>
    ELSE LET k == PosOf(s, eol)
         IN  IF k = 0 THEN <<s>>
             ELSE <<SubSeq(s, 1, k - 1)>> \o LinesOf(SubSeq(s, k + 1, Len(s)), eol)

\* the numbers the entries of the table of contents carry, in order
TocNumbers(doc) ==
    LET lines == LinesOf(TocPart(doc), TocClose)
    IN  [i \in DOMAIN lines |-> SubSeq(lines[i], 1, PosOf(lines[i], TocOpen) - 1)]

\* a document without the date it embeds
StripDate(doc) ==
    LET k == PosOf(doc, HeaderHead)
    IN  IF k = 0 THEN doc
        ELSE SubSeq(doc, 1, k) \o SubSeq(doc, PosOf(doc, HeaderTail), Len(doc))

\* the names of S in ascending order of code points
Ascending(S) ==
    CHOOSE s \in Orderings(S) :
        \A i, j \in DOMAIN s : i < j => StrLess(s[i], s[j])

\* the table of contents and the body of a document that lists the
\* directories names[1], names[2], ... and holds text[n] for directory n
RECURSIVE TocOver(_, _)
TocOver(names, i) ==
    IF i > Len(names) THEN <<>>
    ELSE TocLine(i, names[i]) \o TocOver(names, i + 1)

RECURSIVE BodyOver(_, _, _)
BodyOver(names, text, i) ==
    IF i > Len(names) THEN <<>>
    ELSE Section(names[i], text[names[i]]) \o BodyOver(names, text, i + 1)

DocumentOver(names, text, d) ==
    <<HeaderHead>> \o strftime(d) \o <<HeaderTail, TocHeading>>
        \o TocOver(names, 1) \o <<HeaderEnd>> \o BodyOver(names, text, 1)

\* the directories that hold a README.md
WithReadme == {n \in DirNames : entries[n].readme # "absent"}
\* the directories without one
WithoutReadme == DirNames \ WithReadme
\* the directories whose README.md holds no byte
EmptyReadme == {n \in DirNames : entries[n].readme = "file" /\ entries[n].bytes = <<>>}
\* the directories whose README.md holds at least one byte
NonEmptyReadme == {n \in DirNames : entries[n].readme = "file" /\ entries[n].bytes # <<>>}

\* the bytes of each README.md, and the text each is read as
RawText == [n \in Names |-> entries[n].bytes]
ReadText == [n \in Names |-> read_text(entries[n].bytes)]

\* the run has ended normally after writing docs/PORTFOLIO.md
Written == pc = "done" /\ stdout # << <<NoProjectsMessage>> >>
\* the run has ended normally on the no-projects path
NothingFound == pc = "done" /\ stdout = << <<NoProjectsMessage>> >>


(***************************************************************************)
(* The properties.                                                         *)
(***************************************************************************)

\* C1: a run that ends normally has written a table of contents whose
\* entries are exactly the directories that contain a README.md, in
\* ascending order of directory name.
\* The code leaves out a directory whose README.md is empty ("if content:"
\* on line 40 is false for "" as it is for None), so this fails.
C1_TocListsEveryReadmeDir ==
    Written =>
        /\ outFile.exists
        /\ TocPart(outFile.text) = TocOver(Ascending(WithReadme), 1)

\* what the code does instead: the table of contents lists the directories
\* whose README.md is not empty, in ascending order
TocListsNonEmptyReadmeDirs ==
    Written =>
        /\ outFile.exists
        /\ TocPart(outFile.text) = TocOver(Ascending(NonEmptyReadme), 1)

\* C6: the entries of the table of contents are numbered 1..N and "Total
\* projects" prints N, where N is the number of directories that have a
\* README.md.
\* N is the number of directories whose README.md is not empty (the fault of
\* C1), so this fails.
C6_NumberedOneToReadmeCount ==
    Written =>
        LET N == Cardinality(WithReadme)
        IN  /\ outFile.exists
            /\ TocNumbers(outFile.text) = [i \in 1..N |-> Str(i)]
            /\ Len(stdout) = 3
            /\ stdout[2] = <<TotalProjectsMessage>> \o Str(N)

\* what the code does instead: the numbers are 1..N and the count printed is
\* N for N the number of directories whose README.md is not empty
NumberedOneToIncludedCount ==
    Written =>
        LET N == Cardinality(NonEmptyReadme)
        IN  /\ TocNumbers(outFile.text) = [i \in 1..N |-> Str(i)]
            /\ stdout[2] = <<TotalProjectsMessage>> \o Str(N)

\* C4: the body of the written document holds, for every project included
\* and in ascending order of directory name, a separator, the marker naming
\* the directory and the bytes of its README.md, unchanged.
\* The README.md is read in text mode, which turns "\r\n" and "\r" into
\* "\n", so this fails for a README.md that holds a carriage return.
C4_BodyHoldsReadmesVerbatim ==
    Written =>
        BodyPart(outFile.text)
            = BodyOver([i \in DOMAIN projects |-> projects[i][1]], RawText, 1)

\* what the code does instead: the body holds each README.md as text mode
\* reads it
BodyHoldsReadmesAsRead ==
    Written =>
        BodyPart(outFile.text)
            = BodyOver(Ascending(NonEmptyReadme), ReadText, 1)


\* C2: a run that finds no README.md under any directory of docs/project
\* (in particular when docs/project holds no directory) does not fail, can
\* always take its next step until it has ended, ends having printed the
\* no-projects message and nothing else, and leaves
\* docs/PORTFOLIO.md and docs as they were when it started.
C2_NoReadmeNoWrite ==
    (rootExists /\ WithReadme = {} /\ pc # "idle") =>
        /\ pc \in {"scan", "read", "check", "done"}
        /\ pc # "done" => ENABLED (Scan \/ ReadOne \/ ReadDone \/ CheckProjects)
        /\ outFile = outBefore
        /\ docsExists = docsBefore
        /\ pc = "done" => stdout = << <<NoProjectsMessage>> >>

\* C2's case: such a run has ended, over a docs/PORTFOLIO.md that existed
C2_Witness ==
    /\ pc = "done"
    /\ rootExists
    /\ WithReadme = {}
    /\ outBefore = StaleFile
    /\ outFile = StaleFile

\* C2's other case: docs/project holds no directory at all
C2_WitnessNoDirs ==
    /\ pc = "done"
    /\ rootExists
    /\ DirNames = {}
    /\ stdout = << <<NoProjectsMessage>> >>

\* C3, as stated: after every run that ends normally docs/PORTFOLIO.md
\* holds the document assembled from the inputs of that run.
\* A run on the no-projects path writes nothing, so this fails.
C3_EveryRunOverwrites ==
    pc = "done" =>
        \E d \in Dates :
            outFile = FileOf(DocumentOver(Ascending(NonEmptyReadme), ReadText, d))

\* C3, amended: a run that ends normally and found at least one README.md
\* that is not empty leaves in docs/PORTFOLIO.md exactly the document
\* assembled from the inputs of that run (the directories whose README.md is
\* not empty, in ascending order, each with the text read from it), with
\* nothing of the earlier file in it; a run that ends normally and found
\* none leaves the file as it was.
C3_WritingRunRegenerates ==
    pc = "done" =>
        IF NonEmptyReadme # {}
        THEN \E d \in Dates :
                outFile = FileOf(DocumentOver(Ascending(NonEmptyReadme), ReadText, d))
        ELSE outFile = outBefore

\* C3's case: a run has replaced a document an earlier run wrote from other
\* inputs
C3_Witness ==
    /\ pc = "done"
    /\ NonEmptyReadme # {}
    /\ outBefore.exists
    /\ outBefore # StaleFile
    /\ ~rerun
    /\ StripDate(outBefore.text) # StripDate(outFile.text)

\* C5: a run started right after a run that wrote docs/PORTFOLIO.md, with
\* nothing under docs changed in between, does not fail, writes again, and
\* writes the same document apart from the date.
C5_Idempotent ==
    rerun =>
        /\ pc # "failed"
        /\ pc = "done" => Written
        /\ pc \in {"report", "done"} =>
              /\ outFile.exists
              /\ outBefore.exists
              /\ StripDate(outFile.text) = StripDate(outBefore.text)

\* C5's case: the second run has written, on another day than the first,
\* a document over two projects
C5_Witness ==
    /\ rerun
    /\ pc = "done"
    /\ outFile # outBefore
    /\ Len(projects) >= 2

\* the file system with each directory that has no README.md removed
WithoutReadmelessDirs ==
    [n \in Names |-> IF n \in WithoutReadme THEN NoEntry ELSE entries[n]]

\* C7: a directory without a README.md gets no entry in the table of
\* contents and no marker or section in the body, and the table of
\* contents (with its numbering), the body and the count printed are those
\* the other directories give when it is not there.
C7_NoReadmeNeverAppears ==
    Written =>
        /\ \A n \in WithoutReadme :
              /\ ~Contains(outFile.text, <<SectionOpen>> \o n \o <<SectionMid>>)
              /\ ~Contains(outFile.text, <<TocMid>> \o anchor(n) \o <<TocClose>>)
              /\ \A i \in 1..Cardinality(Names) :
                    ~Contains(outFile.text, TocLine(i, n))
        /\ LET fs == WithoutReadmelessDirs
               others == Ascending({n \in Names : /\ fs[n].kind = "dir"
                                                  /\ read_text(fs[n].bytes) # <<>>})
           IN  /\ TocPart(outFile.text) = TocOver(others, 1)
               /\ TocNumbers(outFile.text) = [i \in DOMAIN others |-> Str(i)]
               /\ BodyPart(outFile.text) = BodyOver(others, ReadText, 1)
               /\ stdout[2] = <<TotalProjectsMessage>> \o Str(Len(others))

\* C7's case: a document was written while a directory without a README.md
\* sorts before a directory that is included
C7_Witness ==
    /\ Written
    /\ \E n \in WithoutReadme, m \in NonEmptyReadme : StrLess(n, m)

\* C9: until the scan and every read are done the run has neither created
\* docs nor touched docs/PORTFOLIO.md; a run that failed in the scan or in
\* a read has left both as they were.
C9_ReadsBeforeWrite ==
    /\ pc \in {"scan", "read", "check", "build", "write", "failed"} =>
          /\ outFile = outBefore
          /\ docsExists = docsBefore
    /\ pc \in {"build", "write", "report"} => idx > Len(dirs)
    /\ pc = "failed" => stdout = <<>>

\* C9's case: a read failed after another README.md had been read, over a
\* docs/PORTFOLIO.md that existed
C9_Witness ==
    /\ pc = "failed"
    /\ rootExists
    /\ projects # <<>>
    /\ outFile = StaleFile

\* C9's other case: the scan failed
C9_WitnessScan ==
    /\ pc = "failed"
    /\ ~rootExists
    /\ outFile = StaleFile

\* the file system with each empty README.md removed
WithoutEmptyReadmes ==
    [n \in Names |->
        IF n \in EmptyReadme
        THEN [kind |-> "dir", readme |-> "absent", bytes |-> <<>>]
        ELSE entries[n]]

\* C10: a directory whose README.md is empty is treated as a directory
\* without a README.md: it is in no pair of the collection, has no entry in
\* the table of contents and no section, and is not counted; the document
\* is the one the directories that hold a README.md give once every empty
\* README.md is removed; when every directory is in one of the two
\* situations the run prints the no-projects message and writes nothing.
C10_EmptyReadmeIsNoReadme ==
    LET fs == WithoutEmptyReadmes
        holders == {n \in Names : fs[n].kind = "dir" /\ fs[n].readme # "absent"}
    IN  /\ pc \in {"check", "build", "write", "report", "done"} =>
              \A n \in EmptyReadme : \A i \in DOMAIN projects : projects[i][1] # n
        /\ Written =>
              /\ \A n \in EmptyReadme :
                    /\ ~Contains(outFile.text, <<SectionOpen>> \o n \o <<SectionMid>>)
                    /\ \A i \in 1..Cardinality(Names) :
                          ~Contains(outFile.text, TocLine(i, n))
              /\ \E d \in Dates :
                    outFile.text = DocumentOver(Ascending(holders), ReadText, d)
              /\ stdout[2] = <<TotalProjectsMessage>> \o Str(Cardinality(holders))
        /\ (pc = "done" /\ holders = {}) =>
              /\ stdout = << <<NoProjectsMessage>> >>
              /\ outFile = outBefore

\* C10's case: a document was written while a directory with an empty
\* README.md sorts before a directory that is included
C10_Witness ==
    /\ Written
    /\ \E n \in EmptyReadme, m \in NonEmptyReadme : StrLess(n, m)

\* C10's other case: every directory has an empty README.md or none, and
\* one has an empty one
C10_WitnessNothingFound ==
    /\ NothingFound
    /\ EmptyReadme # {}
    /\ WithoutReadme # {}


\* the place where the word (a run of characters other than " ") holding
\* place i of s starts
WordStart(s, i) ==
    CHOOSE j \in 1..i :
        /\ j = 1 \/ s[j - 1] = " "
        /\ \A k \in j..i : s[k] # " "

\* s with the first letter of each whitespace-separated word upper-cased and
\* its other letters lower-cased
CapitalizeWords(s) ==
    [i \in DOMAIN s |->
        IF s[i] = " " \/ ~IsCased(s[i]) THEN s[i]
        ELSE IF \A k \in WordStart(s, i)..(i - 1) : ~IsCased(s[k])
             THEN Upper(s[i])
             ELSE Lower(s[i])]

\* the places where the words of s start
WordStarts(s) == {i \in DOMAIN s : s[i] # " " /\ (i = 1 \/ s[i - 1] = " ")}

\* the title as C8 describes it: "-" replaced by " ", each word
\* capitalized, and the first word dropped (with the space after it) if and
\* only if it is purely numeric and another word follows
ClaimedTitle(name) ==
    LET s == CapitalizeWords(Replace(name, "-", " "))
        starts == WordStarts(s)
    IN  IF Cardinality(starts) > 1
        THEN LET first == CHOOSE i \in starts : \A j \in starts : i <= j
                 after == CHOOSE i \in DOMAIN s :
                             /\ i > first
                             /\ s[i] = " "
                             /\ \A k \in first..(i - 1) : s[k] # " "
             IN  IF \A k \in first..(after - 1) : IsDigit(s[k])
                 THEN SubSeq(s, after + 1, Len(s))
                 ELSE s
        ELSE s

\* C8, as stated: the title of a directory name is the name with "-"
\* replaced by " ", the first letter of each whitespace-separated word
\* capitalized, and the first word dropped if and only if it is purely
\* numeric and more than one word exists.
\* str.title() starts a new word at every character that is no letter, and
\* the first piece is dropped whenever a space follows it, so this fails.
C8_TitleAsStated ==
    tTitle # NotComputed => tTitle = ClaimedTitle(tName)

\* the title as the code computes it, place by place
TitleCased(s) ==
    [i \in DOMAIN s |->
        IF ~IsCased(s[i]) THEN s[i]
        ELSE IF i > 1 /\ IsCased(s[i - 1]) THEN Lower(s[i])
        ELSE Upper(s[i])]

\* C8, amended: the title is the name with "-" replaced by " " and then
\* title-cased as str.title() does it (a letter is upper-cased when the
\* character before it is no letter or there is none, and lower-cased when
\* it is a letter); when the result holds a space, and what precedes its
\* first space is at least one character, all of them digits, the title is
\* what follows that first space, and otherwise the whole result.
C8_TitleAsComputed ==
    tTitle # NotComputed =>
        LET s == Replace(tName, "-", " ")
            u == TitleCased(s)
        IN  IF \E k \in DOMAIN s :
                   /\ k > 1
                   /\ s[k] = " "
                   /\ \A j \in 1..(k - 1) : IsDigit(s[j])
            THEN \E k \in DOMAIN s :
                   /\ k > 1
                   /\ s[k] = " "
                   /\ \A j \in 1..(k - 1) : IsDigit(s[j])
                   /\ tTitle = SubSeq(u, k + 1, Len(u))
            ELSE tTitle = u

\* C8's case: the title of a name with a numeric prefix was computed, and
\* the prefix dropped
C8_Witness ==
    /\ tName = <<"1", "-", "a">>
    /\ tTitle = <<"A">>

\* C8's other cases: a single numeric word is kept; a letter after a digit
\* is upper-cased; a letter after a letter is lower-cased
C8_WitnessNumericKept == tName = <<"1", "1">> /\ tTitle = <<"1", "1">>
C8_WitnessDigitThenLetter == tName = <<"a", "1", "a">> /\ tTitle = <<"A", "1", "A">>
C8_WitnessLowered == tName = <<"B", "B">> /\ tTitle = <<"B", "b">>

=============================================================================
